---------------------------- MODULE Spec2Model ----------------------------
(***************************************************************************)
(* The turn-taking controller of the riddle game: the admin page           *)
(* (AdminPage.tsx) with the game context (GameContext), the narrator       *)
(* (usePiperTTS, Piper voice and browser voice) and the capture hook       *)
(* (useSpeechRecognition).                                                 *)
(*                                                                         *)
(* React renders are taken to follow every state update at once, so a      *)
(* button handler reads the current state.  A promise continuation, a      *)
(* timer callback or a narrator callback keeps the values of the render    *)
(* that created it: such a closure is a record (a "snapshot") stored       *)
(* with the pending request, timer or utterance.  Pending timers of the    *)
(* same closure are kept once.                                             *)
(*                                                                         *)
(* onResult and onStart are new functions on every render of AdminPage,    *)
(* so the effect of useSpeechRecognition re-runs after every render; it    *)
(* runs some time after the render (RecognitionEffect), and until then     *)
(* the recognition object and the handlers of the earlier render stay.     *)
(*                                                                         *)
(* The narrator speaks with the browser voice until initPiper has made     *)
(* the Piper voice ready (PiperReady); the download progress of the voice  *)
(* is only displayed and is left out.                                      *)
(*                                                                         *)
(* Texts are abstracted: an utterance is a number 1..MaxUtter, a word is   *)
(* a number 1..NumWords, and the riddle generated for word k is k.         *)
(*                                                                         *)
(* Spec is the whole system from construction.  The properties are         *)
(* checked under specifications of parts of it: typed-input sessions from  *)
(* construction (SpecTyped, SpecRounds, SpecHints), sessions that continue *)
(* a game in progress (SpecTurns, SpecSpeech, SpecFlush, SpecRecovery,     *)
(* SpecPiper), whose initial states are reachable under Spec by the steps  *)
(* named at their definitions, and repeated calls of one function of the   *)
(* game context (SpecWords, SpecUseHint).                                  *)
(***************************************************************************)
EXTENDS Integers, Sequences, FiniteSets

\* ------------------------------------------------------------------ bounds
MaxUtter == 2
MaxGames == 1
NumWords == 1
MaxMic == 1
MaxLate == 1
RoundsMaxGames == 2
TurnsMaxUtter == 4
MaxHintsAllowed == 4
WordsMax == 5
MaxContent == 1
MaxPieces == 3
MaxChannel == 2
ExtraCalls == 2

\* ------------------------------------------------------- program constants
DefaultHintsAllowed == 3
SliderMax == 10

\* DEFAULT_WORDS, the empty string as a word or a riddle, and no hintText
Words == 1..NumWords
NoWord == 0
NoRiddle == 0
NoHint == 0
\* lastAIResponse before any answer (the empty string)
NoAIResponse == [utt |-> 0, message |-> << >>]
\* customDisplay absent from the Session (undefined)
NoCustomDisplay == [type |-> "none", content |-> 0]

DEFAULT_PARAMS == [hintsAllowed |-> DefaultHintsAllowed, wordList |-> Words]

Min(a, b) == IF a < b THEN a ELSE b

\* A text the player spoke or typed: the n-th utterance, tagged with the game
\* that was current when it was made.  NoTranscript is the empty string.
NoTranscript == [text |-> 0, game |-> 0]
Utterance(w) == [text |-> w.nextUtt, game |-> w.gameNo]

VARIABLES
  \* GameContext
  params,               \* hintsAllowed and wordList (difficulty is not read)
  gameState,            \* the Session record
  isMuted,
  isProcessing,
  usedWords,            \* usedWordsRef
  \* useLMStudio
  isLMLoading,
  judgeCalls,           \* handleUserInput requests awaiting the judge
  riddleCalls,          \* generateRiddle requests awaiting the judge
  hintCalls,            \* generateHint requests awaiting the judge
  \* AdminPage
  processingQueue,      \* processingQueueRef
  isProcessingRef,
  nextTimers,           \* pending setTimeout(processNextInQueue, 100), by closure
  endGameTimers,        \* pending setTimeout(() => endGame(), 5000), each with
                        \* the number of the game in which it was set
  lastAIResponse,       \* the cleaned response last shown and sent, with the
                        \* utterance it answers; NoAIResponse: none yet
                        \* as ai_response (0: none yet)
  hintsSent,            \* number of give_hint events sent (sendHint)
  \* usePiperTTS
  isPiperReady,
  useFallback,
  piperCalls,           \* ttsRef.current.predict requests awaiting the voice
  audios,               \* Audio elements that are playing
  audioRef,             \* audioRef.current: the id of an Audio (0: null)
  nextAudio,            \* the id of the next Audio
  isSpeaking,
  synth,                \* window.speechSynthesis: the utterance it holds
  synthLate,            \* events still to come from cancelled utterances
  \* useSpeechRecognition
  isListening,
  isSupported,
  recognition,          \* engine state of recognitionRef.current
  isIntentionalStop,    \* isIntentionalStopRef
  restartTimeout,       \* restartTimeoutRef
  silenceTimeout,       \* silenceTimeoutRef
  accumulatedTranscript,\* accumulatedTranscriptRef
  micRequests,          \* getUserMedia promises of startListening
  startRetry,           \* the 200 ms retry timer of startListening
  lateEnds,             \* end events still to come from aborted recognitions
  effectDue,            \* a render changed onResult/onStart: the effect re-runs
  recHandlers,          \* the closure of onResult/onStart the effect installed
  \* useWindowChannel, DisplayPage
  channel,              \* messages posted and not yet handled by the display
  display,              \* the DisplayPage: its gameState, hintText, showHint
  \* bookkeeping
  nextUtt,              \* the next utterance number
  gameNo                \* number of games started

vars == << isPiperReady, useFallback, piperCalls, audios, audioRef, nextAudio,
           params, gameState, isMuted, isProcessing, usedWords, isLMLoading,
           judgeCalls, riddleCalls, hintCalls, hintsSent, processingQueue, isProcessingRef, nextTimers,
           endGameTimers, lastAIResponse, isSpeaking, synth, synthLate,
           isListening, isSupported, recognition, isIntentionalStop,
           restartTimeout,
           silenceTimeout, accumulatedTranscript, micRequests, startRetry,
           lateEnds, effectDue, recHandlers, channel, display, nextUtt, gameNo >>

\* The whole state as one record: handlers are functions from World to World.
World ==
  [ isPiperReady |-> isPiperReady, useFallback |-> useFallback,
    piperCalls |-> piperCalls, audios |-> audios, audioRef |-> audioRef,
    nextAudio |-> nextAudio,
    params |-> params, hintCalls |-> hintCalls, hintsSent |-> hintsSent,
    gameState |-> gameState, isMuted |-> isMuted, isProcessing |-> isProcessing,
    usedWords |-> usedWords, isLMLoading |-> isLMLoading,
    judgeCalls |-> judgeCalls, riddleCalls |-> riddleCalls,
    processingQueue |-> processingQueue, isProcessingRef |-> isProcessingRef,
    nextTimers |-> nextTimers, endGameTimers |-> endGameTimers,
    lastAIResponse |-> lastAIResponse, isSpeaking |-> isSpeaking, synth |-> synth,
    synthLate |-> synthLate, isListening |-> isListening,
    isSupported |-> isSupported,
    recognition |-> recognition, isIntentionalStop |-> isIntentionalStop,
    restartTimeout |-> restartTimeout, silenceTimeout |-> silenceTimeout,
    accumulatedTranscript |-> accumulatedTranscript,
    micRequests |-> micRequests, startRetry |-> startRetry,
    lateEnds |-> lateEnds,
    effectDue |-> effectDue, recHandlers |-> recHandlers, nextUtt |-> nextUtt,
    gameNo |-> gameNo, channel |-> channel, display |-> display,
    gameStateSet |-> FALSE ]

\* send: postMessage reaches the display only if a DisplayPage is mounted
send(w, message) ==
  IF w.display.mounted THEN [w EXCEPT !.channel = Append(@, message)] ELSE w

\* postMessage copies the payload by the structured clone algorithm: a plain
\* object is copied own property by own property
structuredClone(state) == [f \in DOMAIN state |-> state[f]]

sendGameState(w, state) ==
  send(w, [type |-> "game_state", payload |-> structuredClone(state)])

\* the sync effect that never sends
syncEffectNever(w) == w

\* the sync effect of AdminPage: after a render in which setGameState made a
\* new gameState object, the gameState of that render is sent
syncEffect(w) ==
  IF w.gameStateSet THEN sendGameState(w, w.gameState) ELSE w

\* a handler ran from the current state to world w, and the page rendered
Commit(w) ==
  /\ isPiperReady' = w.isPiperReady
  /\ useFallback' = w.useFallback
  /\ piperCalls' = w.piperCalls
  /\ audios' = w.audios
  /\ audioRef' = w.audioRef
  /\ nextAudio' = w.nextAudio
  /\ params' = w.params
  /\ hintCalls' = w.hintCalls
  /\ hintsSent' = w.hintsSent
  /\ gameState' = w.gameState
  /\ isMuted' = w.isMuted
  /\ isProcessing' = w.isProcessing
  /\ usedWords' = w.usedWords
  /\ isLMLoading' = w.isLMLoading
  /\ judgeCalls' = w.judgeCalls
  /\ riddleCalls' = w.riddleCalls
  /\ processingQueue' = w.processingQueue
  /\ isProcessingRef' = w.isProcessingRef
  /\ nextTimers' = w.nextTimers
  /\ endGameTimers' = w.endGameTimers
  /\ lastAIResponse' = w.lastAIResponse
  /\ isSpeaking' = w.isSpeaking
  /\ synth' = w.synth
  /\ synthLate' = w.synthLate
  /\ isListening' = w.isListening
  /\ isSupported' = w.isSupported
  /\ recognition' = w.recognition
  /\ isIntentionalStop' = w.isIntentionalStop
  /\ restartTimeout' = w.restartTimeout
  /\ silenceTimeout' = w.silenceTimeout
  /\ accumulatedTranscript' = w.accumulatedTranscript
  /\ micRequests' = w.micRequests
  /\ startRetry' = w.startRetry
  /\ lateEnds' = w.lateEnds
  /\ effectDue' = w.effectDue
  /\ recHandlers' = w.recHandlers
  /\ nextUtt' = w.nextUtt
  /\ gameNo' = w.gameNo
  /\ channel' = syncEffect(w).channel
  /\ display' = w.display

\* ------------------------------------------------------------ GameContext

Status(kind) == [kind |-> kind, utt |-> 0]
ProcessingStatus(u) == [kind |-> "Processing", utt |-> u]

DEFAULT_GAME_STATE ==
  [ isGameActive |-> FALSE, currentWord |-> NoWord, currentRiddle |-> NoRiddle,
    hintsRemaining |-> 3, hintsUsed |-> 0, emotion |-> "neutral",
    statusText |-> Status("Waiting to start..."), hintText |-> NoHint,
    customDisplay |-> NoCustomDisplay ]

\* setParams: the provider renders again, and AdminPage with it
setParams(w, p) == [w EXCEPT !.params = p, !.effectDue = TRUE]

\* setGameState: a new object every time, so the page renders again
setGameState(w, g) ==
  [w EXCEPT !.gameState = g, !.effectDue = TRUE, !.gameStateSet = TRUE]

updateGameState(w, updates) ==
  setGameState(w, [f \in DOMAIN w.gameState |->
                     IF f \in DOMAIN updates THEN updates[f] ELSE w.gameState[f]])

setEmotion(w, emotion) ==
  setGameState(w, [w.gameState EXCEPT !.emotion = emotion])

\* endGame that also empties the word and the riddle
endGameClearing(w) ==
  setGameState(w, [w.gameState EXCEPT !.isGameActive = FALSE,
                                      !.currentWord = NoWord,
                                      !.currentRiddle = NoRiddle,
                                      !.emotion = "neutral",
                                      !.statusText = Status("Game ended")])

\* endGame that goes back to the default Session
endGameDefaults(w) ==
  setGameState(w, [DEFAULT_GAME_STATE EXCEPT !.statusText = Status("Game ended")])

endGame(w) ==
  setGameState(w, [w.gameState EXCEPT !.isGameActive = FALSE,
                                      !.emotion = "neutral",
                                      !.statusText = Status("Game ended")])

\* the words startGame may draw, and the used set before the draw
availableWords(w) == w.params.wordList \ w.usedWords

\* startGame drawing from the whole list whatever has been used
startGameWordsAny(w) == w.params.wordList

\* words[Math.floor(Math.random() * words.length)] of an empty list
UndefinedWord == -1

startGameWords(w) ==
  IF availableWords(w) # {} THEN availableWords(w)
  ELSE IF w.params.wordList # {} THEN w.params.wordList
  ELSE {UndefinedWord}

startGame(w, selectedWord) ==
  LET used == IF availableWords(w) = {} THEN {} ELSE w.usedWords IN
  setGameState([w EXCEPT !.usedWords = used \cup {selectedWord}],
    [ isGameActive |-> TRUE, currentWord |-> selectedWord,
      currentRiddle |-> NoRiddle, hintsRemaining |-> w.params.hintsAllowed,
      hintsUsed |-> 0, emotion |-> "neutral",
      statusText |-> Status("Generating riddle..."), hintText |-> NoHint,
    customDisplay |-> NoCustomDisplay ])

\* useHint without the test of hintsRemaining
useHintUnguarded(w) ==
  [ ok |-> TRUE,
    w  |-> setGameState(w, [w.gameState EXCEPT !.hintsRemaining = @ - 1,
                                               !.hintsUsed = @ + 1]) ]

\* useHint: what it returns (ok) and the state it leaves (w)
useHint(w) ==
  IF w.gameState.hintsRemaining <= 0
  THEN [ok |-> FALSE, w |-> w]
  ELSE [ ok |-> TRUE,
         w  |-> setGameState(w, [w.gameState EXCEPT !.hintsRemaining = @ - 1,
                                                    !.hintsUsed = @ + 1]) ]

\* useState setters of a boolean: React renders again only on a change
setIsMuted(w, b) ==
  [w EXCEPT !.isMuted = b, !.effectDue = @ \/ (w.isMuted # b)]
setIsProcessing(w, b) ==
  [w EXCEPT !.isProcessing = b, !.effectDue = @ \/ (w.isProcessing # b)]
setIsLoading(w, b) ==
  [w EXCEPT !.isLMLoading = b, !.effectDue = @ \/ (w.isLMLoading # b)]
setIsSpeaking(w, b) ==
  [w EXCEPT !.isSpeaking = b, !.effectDue = @ \/ (w.isSpeaking # b)]
setIsListening(w, b) ==
  [w EXCEPT !.isListening = b, !.effectDue = @ \/ (w.isListening # b)]
setIsSupported(w, b) ==
  [w EXCEPT !.isSupported = b, !.effectDue = @ \/ (w.isSupported # b)]

\* ---------------------------------------------------------------- closures

\* What the callbacks of one render of AdminPage read of that render.
Closure(w) ==
  [ active |-> w.gameState.isGameActive, muted |-> w.isMuted,
    word |-> w.gameState.currentWord, riddle |-> w.gameState.currentRiddle,
    listening |-> w.isListening, speaking |-> w.isSpeaking,
    processing |-> w.isProcessing,
    piper |-> w.isPiperReady /\ ~w.useFallback ]

\* processNextInQueue, speak and the narrator's onEnd read neither isSpeaking
\* nor isProcessing: their closure is kept without them.  piper tells which
\* voice the speak of that render takes (isPiperReady and not useFallback).
Turn(c) ==
  [ active |-> c.active, muted |-> c.muted, word |-> c.word,
    riddle |-> c.riddle, listening |-> c.listening, piper |-> c.piper ]

NoTurn ==
  [ active |-> FALSE, muted |-> FALSE, word |-> NoWord, riddle |-> NoRiddle,
    listening |-> FALSE, piper |-> FALSE ]


\* ------------------------------------------------ useSpeechRecognition

\* startListening, as the closure that saw isListening = listening
startListening(w, listening) ==
  IF ~listening
  THEN [w EXCEPT !.isIntentionalStop = FALSE,
                 !.accumulatedTranscript = NoTranscript,
                 !.micRequests = Min(@ + 1, MaxMic)]
  ELSE w

\* recognition.start(): throws unless the engine is idle
canStart(w) == w.recognition = "idle"

\* recognition.stop(): the engine winds down and reports 'end' later
recognitionStop(w) ==
  IF w.recognition \in {"starting", "running"}
  THEN [w EXCEPT !.recognition = "stopping"]
  ELSE w

\* ------------------------------------------------------------ usePiperTTS

\* What is narrated: the text handed to speak, as a literal prefix and what
\* follows it (a riddle, a hint, or the judge's cleaned response)
Say(prefix, body) == [prefix |-> prefix, body |-> body]
NoText == Say("", << >>)

\* starts: how many times onStart has been called for the text so far
NoSynth == [phase |-> "none", turn |-> NoTurn, text |-> NoText, starts |-> 0]

\* speechSynthesis.cancel(): the utterance is dropped; one that was being
\* spoken still reports, 'end' or 'error' by the browser (ev)
cancelSynth(w, ev) ==
  IF w.synth.phase = "speaking"
  THEN [w EXCEPT !.synth = NoSynth,
                 !.synthLate = @ \cup {[ev |-> ev, turn |-> w.synth.turn]}]
  ELSE [w EXCEPT !.synth = NoSynth]

speakWithBrowser(w, text, turn, ev) ==
  [cancelSynth(w, ev) EXCEPT
     !.synth = [phase |-> "queued", turn |-> turn, text |-> text, starts |-> 0]]

\* speakWithPiper up to the await of predict
speakWithPiper(w, text, turn) ==
  [setIsSpeaking(w, TRUE) EXCEPT
     !.piperCalls = @ \cup {[id |-> w.nextAudio, turn |-> turn, text |-> text,
                            starts |-> 1]},
     !.nextAudio = @ + 1]

\* speak, as the closure of one render: the Piper voice if that render saw it
\* ready, the browser voice otherwise
speak(w, text, turn, ev) ==
  IF turn.piper THEN speakWithPiper(w, text, turn)
  ELSE speakWithBrowser(w, text, turn, ev)

\* audioRef.current.pause(); audioRef.current = null
pauseAudio(w) ==
  [w EXCEPT !.audios = {a \in @ : a.id # w.audioRef}, !.audioRef = 0]

stopSpeaking(w, ev) == setIsSpeaking(cancelSynth(pauseAudio(w), ev), FALSE)

\* the onEnd AdminPage gives usePiperTTS, as the closure of one render
onEnd(w, turn) ==
  IF turn.active /\ ~turn.muted
  THEN startListening(setEmotion(w, "listening"), turn.listening)
  ELSE w

\* ------------------------------------------------------------ AdminPage

\* processNextInQueue without the isProcessingRef test
processNextInQueueUnguarded(w, t) ==
  IF Len(w.processingQueue) = 0 THEN w
  ELSE IF ~t.active \/ t.muted THEN w
  ELSE
    LET userInput == Head(w.processingQueue)
        w1 == [w EXCEPT !.isProcessingRef = TRUE,
                        !.processingQueue = Tail(@)]
        w2 == setIsProcessing(setEmotion(w1, "thinking"), TRUE)
        w3 == updateGameState(w2, [statusText |-> ProcessingStatus(userInput.text)])
    IN  [setIsLoading(w3, TRUE) EXCEPT
           !.judgeCalls = @ \cup {[utt |-> userInput, word |-> t.word,
                                   riddle |-> t.riddle, turn |-> t]}]

\* processNextInQueue with pop() in place of shift()
processNextInQueuePop(w, t) ==
  IF w.isProcessingRef \/ Len(w.processingQueue) = 0 THEN w
  ELSE IF ~t.active \/ t.muted THEN w
  ELSE
    LET n == Len(w.processingQueue)
        userInput == w.processingQueue[n]
        w1 == [w EXCEPT !.isProcessingRef = TRUE,
                        !.processingQueue = SubSeq(@, 1, n - 1)]
        w2 == setIsProcessing(setEmotion(w1, "thinking"), TRUE)
        w3 == updateGameState(w2, [statusText |-> ProcessingStatus(userInput.text)])
    IN  [setIsLoading(w3, TRUE) EXCEPT
           !.judgeCalls = @ \cup {[utt |-> userInput, word |-> t.word,
                                   riddle |-> t.riddle, turn |-> t]}]

\* processNextInQueue, as the closure t of one render
processNextInQueue(w, t) ==
  IF w.isProcessingRef \/ Len(w.processingQueue) = 0 THEN w
  ELSE IF ~t.active \/ t.muted THEN w
  ELSE
    LET userInput == Head(w.processingQueue)
        w1 == [w EXCEPT !.isProcessingRef = TRUE,
                        !.processingQueue = Tail(@)]
        w2 == setIsProcessing(setEmotion(w1, "thinking"), TRUE)
        w3 == updateGameState(w2, [statusText |-> ProcessingStatus(userInput.text)])
    IN  \* handleUserInput -> chat: setIsLoading(true), then the request
        [setIsLoading(w3, TRUE) EXCEPT
           !.judgeCalls = @ \cup {[utt |-> userInput, word |-> t.word,
                                   riddle |-> t.riddle, turn |-> t]}]

\* onResult that also turns away what arrives while a request is in flight
onResultUnlessBusy(w, c, transcript) ==
  IF c.active /\ ~c.muted /\ ~c.speaking /\ ~w.isProcessingRef
  THEN processNextInQueue(
         [w EXCEPT !.processingQueue = Append(@, transcript)],
         Turn(c))
  ELSE w

\* the onResult AdminPage gives useSpeechRecognition, as the closure c
onResult(w, c, transcript) ==
  IF c.active /\ ~c.muted /\ ~c.speaking
  THEN processNextInQueue(
         [w EXCEPT !.processingQueue = Append(@, transcript)],
         Turn(c))
  ELSE w

\* the onStart AdminPage gives useSpeechRecognition, as the closure c
onStart(w, c) ==
  IF ~c.speaking /\ ~c.processing
  THEN updateGameState(setEmotion(w, "listening"),
                       [statusText |-> Status("Listening...")])
  ELSE w

\* stopListening, as the closure c (its isListening and its onResult)
stopListening(w, c) ==
  LET w1 == [w EXCEPT !.isIntentionalStop = TRUE,
                      !.restartTimeout = "none",
                      !.silenceTimeout = FALSE]
      w2 == IF w1.accumulatedTranscript # NoTranscript
            THEN [onResult(w1, c, w1.accumulatedTranscript)
                    EXCEPT !.accumulatedTranscript = NoTranscript]
            ELSE w1
  IN  IF c.listening THEN recognitionStop(w2) ELSE w2


\* ------------------------------------------------------------------- Init

\* DisplayPage before it is mounted, and as it mounts (DEFAULT_STATE)
DISPLAY_DEFAULT_STATE ==
  [ isGameActive |-> FALSE, currentWord |-> NoWord, currentRiddle |-> NoRiddle,
    hintsRemaining |-> 3, hintsUsed |-> 0, emotion |-> "neutral",
    statusText |-> Status("Waiting for game to start...") ]
NoDisplayPage ==
  [ mounted |-> FALSE, gameState |-> DISPLAY_DEFAULT_STATE, hintText |-> NoHint,
    showHint |-> FALSE, hideTimers |-> 0, received |-> FALSE ]

Init ==
  /\ params = DEFAULT_PARAMS
  /\ hintCalls = {}
  /\ hintsSent = 0
  /\ gameState = DEFAULT_GAME_STATE
  /\ isMuted = FALSE
  /\ isProcessing = FALSE
  /\ usedWords = {}
  /\ isLMLoading = FALSE
  /\ judgeCalls = {}
  /\ riddleCalls = {}
  /\ processingQueue = << >>
  /\ isProcessingRef = FALSE
  /\ nextTimers = {}
  /\ endGameTimers = << >>
  /\ lastAIResponse = NoAIResponse
  /\ isSpeaking = FALSE
  /\ synth = NoSynth
  /\ synthLate = {}
  /\ isListening = FALSE
  /\ isSupported = TRUE
  /\ isPiperReady = FALSE
  /\ useFallback = FALSE
  /\ piperCalls = {}
  /\ audios = {}
  /\ audioRef = 0
  /\ nextAudio = 1
  /\ recognition = "idle"
  /\ isIntentionalStop = FALSE
  /\ restartTimeout = "none"
  /\ silenceTimeout = FALSE
  /\ accumulatedTranscript = NoTranscript
  /\ micRequests = 0
  /\ startRetry = FALSE
  /\ lateEnds = 0
  /\ effectDue = FALSE
  /\ recHandlers = [ active |-> FALSE, muted |-> FALSE, word |-> NoWord,
                     riddle |-> NoRiddle, listening |-> FALSE,
                     speaking |-> FALSE, processing |-> FALSE,
                     piper |-> FALSE ]
  /\ channel = << >>
  /\ display = NoDisplayPage
  /\ nextUtt = 1
  /\ gameNo = 0

CancelEvents == {"end", "error"}

Range(q) == {q[i] : i \in 1..Len(q)}

\* ------------------------------------------------- the operator's buttons

\* Start button (disabled while a game is active or the judge is loading)
handleStartGame(maxGames) ==
  /\ ~gameState.isGameActive /\ ~isLMLoading
  /\ gameNo < maxGames
  /\ \E selectedWord \in startGameWords(World) :
       LET c  == Closure(World)
           w1 == startGame([World EXCEPT !.gameNo = @ + 1], selectedWord)
           w2 == updateGameState(w1, [statusText |-> Status("Generating riddle...")])
           w3 == [setIsLoading(w2, TRUE) EXCEPT
                    !.riddleCalls = @ \cup {[word |-> selectedWord, turn |-> Turn(c)]}]
       IN  Commit(w3)

\* generateRiddle answered: the continuation of handleStartGame
RiddleReturn ==
  \E r \in riddleCalls, ev \in CancelEvents :
    LET w1 == setIsLoading([World EXCEPT !.riddleCalls = @ \ {r}], FALSE)
        w2 == updateGameState(w1, [currentRiddle |-> r.word,
                                   statusText |-> Status("Game started! Listening...")])
        w3 == speak(w2, Say("Here's your riddle: ", <<"riddle">>), r.turn, ev)
    IN  Commit(setEmotion(w3, "neutral"))

\* generateRiddle failed: the catch of handleStartGame
RiddleFail ==
  \E r \in riddleCalls :
    LET w1 == setIsLoading([World EXCEPT !.riddleCalls = @ \ {r}], FALSE)
    IN  Commit(endGame(w1))

\* Stop button (disabled while no game is active)
handleStopGame ==
  /\ gameState.isGameActive
  /\ \E ev \in CancelEvents :
       LET c  == Closure(World)
           w1 == endGame(World)
           w2 == stopListening(w1, c)
           w3 == stopSpeaking(w2, ev)
           w4 == setEmotion(w3, "neutral")
       IN  Commit([w4 EXCEPT !.processingQueue = << >>])

\* Mute button
handleMuteToggle ==
  \E ev \in CancelEvents :
    LET c  == Closure(World)
        newMuted == ~c.muted
        w1 == setIsMuted(World, newMuted)
    IN  IF newMuted
        THEN LET w2 == stopListening(w1, c)
                 w3 == stopSpeaking(w2, ev)
             IN  Commit([w3 EXCEPT !.processingQueue = << >>])
        ELSE IF c.active
             THEN Commit(setEmotion(startListening(w1, c.listening), "listening"))
             ELSE Commit(w1)

\* the typed backup input (the field is disabled while no game is active)
handleBackupTextSubmit(maxUtter) ==
  /\ gameState.isGameActive
  /\ nextUtt <= maxUtter
  /\ LET c  == Closure(World)
         w1 == [World EXCEPT !.processingQueue = Append(@, Utterance(World)),
                             !.nextUtt = @ + 1,
                             !.effectDue = TRUE]
     IN  Commit(processNextInQueue(w1, Turn(c)))

\* Give Hint button (disabled while no game is active or no hint remains)
handleGiveHint ==
  /\ gameState.isGameActive /\ gameState.hintsRemaining > 0
  /\ LET c == Closure(World)
         h == useHint(World)
     IN  IF ~h.ok THEN Commit(World)
         ELSE Commit([setIsLoading(h.w, TRUE) EXCEPT
                        !.hintCalls = @ \cup {[ word |-> c.word, riddle |-> c.riddle,
                                                hintNumber |-> gameState.hintsUsed + 1,
                                                game |-> gameNo,
                                                turn |-> Turn(c) ]}])

\* generateHint answered: the continuation of handleGiveHint
HintReturn ==
  \E r \in hintCalls, ev \in CancelEvents :
    LET w1 == setIsLoading([World EXCEPT !.hintCalls = @ \ {r}], FALSE)
        w2 == updateGameState(w1, [hintText |-> r.hintNumber])
        w3 == send([w2 EXCEPT !.hintsSent = @ + 1],
                   [type |-> "give_hint", payload |-> r.hintNumber])
    IN  Commit(speak(w3, Say("Here's a hint: ", <<"hint">>), r.turn, ev))

\* generateHint failed: the catch of handleGiveHint
HintFail ==
  \E r \in hintCalls :
    Commit(setIsLoading([World EXCEPT !.hintCalls = @ \ {r}], FALSE))

\* the Hints Allowed slider (0 to 10) is moved to v
handleHintsAllowedChange(maxHints) ==
  \E v \in 0..Min(maxHints, SliderMax) :
    /\ v # params.hintsAllowed
    /\ Commit(setParams(World, [params EXCEPT !.hintsAllowed = v]))

\* Save Parameters: the lines of the text area, trimmed, without the empty ones
handleSaveParams(maxWords) ==
  \E words \in SUBSET (1..maxWords) :
    /\ words # params.wordList
    /\ Commit(setParams(World, [params EXCEPT !.wordList = words]))

\* ------------------------------------------- the judge answers or fails

\* A response of the judge is a sequence of pieces: a classification marker,
\* a blank, or other text.
Markers == {"[CORRECT]", "[INCORRECT]", "[QUESTION]"}
Pieces == Markers \cup {" ", "text"}

\* the responses of at most maxPieces pieces
Responses(maxPieces) == UNION {[1..n -> Pieces] : n \in 0..maxPieces}

\* the responses the judge was asked for: one marker, then the text; and the
\* ones that carry no marker or two
TaggedResponses ==
  {<<m, "text">> : m \in Markers}
    \cup {<<"text">>, <<"[QUESTION]", "[CORRECT]", "text">>}

\* response.includes(piece)
includes(response, piece) == \E i \in 1..Len(response) : response[i] = piece

\* response.replace(piece, ''): a string pattern, so the first occurrence only
replace(response, piece) ==
  LET found == {i \in 1..Len(response) : response[i] = piece} IN
  IF found = {} THEN response
  ELSE LET i == CHOOSE i \in found : \A j \in found : i <= j
       IN  SubSeq(response, 1, i - 1) \o SubSeq(response, i + 1, Len(response))

\* response.trim()
trim(response) ==
  LET kept == {i \in 1..Len(response) : response[i] # " "} IN
  IF kept = {} THEN << >>
  ELSE SubSeq(response, CHOOSE i \in kept : \A j \in kept : i <= j,
                        CHOOSE i \in kept : \A j \in kept : i >= j)

\* what handleUserInput returns for the judge's response
handleUserInput(response) ==
  [ isCorrect  |-> includes(response, "[CORRECT]"),
    isQuestion |-> includes(response, "[QUESTION]"),
    response   |-> trim(replace(replace(replace(response, "[CORRECT]"),
                                        "[INCORRECT]"), "[QUESTION]")) ]


\* JudgeReturn with endGame() called at once instead of through setTimeout
JudgeReturnEndsAtOnce ==
  \E r \in judgeCalls, isQuestion \in BOOLEAN, isCorrect \in BOOLEAN,
     ev \in CancelEvents :
    LET w1 == setIsLoading([World EXCEPT !.judgeCalls = @ \ {r}], FALSE)
        w2 == [w1 EXCEPT !.lastAIResponse = [utt |-> r.utt.text, message |-> <<"text">>], !.effectDue = TRUE]
        w3 == IF isQuestion
              THEN speak(updateGameState(setEmotion(w2, "neutral"),
                           [statusText |-> Status("Answered your question!")]),
                         Say("", <<"text">>), r.turn, ev)
              ELSE IF isCorrect
              THEN endGame(speak(updateGameState(setEmotion(w2, "happy"),
                                   [statusText |-> Status("Correct!")]),
                                 Say("Correct! ", <<"text">>), r.turn, ev))
              ELSE speak(updateGameState(setEmotion(w2, "sad"),
                           [statusText |-> Status("Try again!")]),
                         Say("", <<"text">>), r.turn, ev)
        w4 == [setIsProcessing(w3, FALSE) EXCEPT
                 !.isProcessingRef = FALSE,
                 !.nextTimers = @ \cup {r.turn}]
    IN  Commit(w4)

\* judgeAnswered speaking the bare response after a correct guess
judgeAnsweredNoPrefix(w, r, res, ev) ==
  LET w1 == setIsLoading([w EXCEPT !.judgeCalls = @ \ {r}], FALSE)
      w2 == [w1 EXCEPT !.lastAIResponse = [utt |-> r.utt.text,
                                           message |-> res.response],
                       !.effectDue = TRUE]
      w3 == IF res.isQuestion
            THEN speak(updateGameState(setEmotion(w2, "neutral"),
                         [statusText |-> Status("Answered your question!")]),
                       Say("", res.response), r.turn, ev)
            ELSE IF res.isCorrect
            THEN [speak(updateGameState(setEmotion(w2, "happy"),
                          [statusText |-> Status("Correct!")]),
                        Say("", res.response), r.turn, ev)
                    EXCEPT !.endGameTimers = Append(@, w2.gameNo)]
            ELSE speak(updateGameState(setEmotion(w2, "sad"),
                         [statusText |-> Status("Try again!")]),
                       Say("", res.response), r.turn, ev)
      w4 == [setIsProcessing(w3, FALSE) EXCEPT
               !.isProcessingRef = FALSE,
               !.nextTimers = @ \cup {r.turn}]
  IN  w4

\* the part of processNextInQueue after the await, when the judge answered:
\* res is what handleUserInput returned for the judge's response
judgeAnswered(w, r, res, ev) ==
  LET w1 == setIsLoading([w EXCEPT !.judgeCalls = @ \ {r}], FALSE)
      w2 == [w1 EXCEPT !.lastAIResponse = [utt |-> r.utt.text,
                                           message |-> res.response],
                       !.effectDue = TRUE]
      w3 == IF res.isQuestion
            THEN speak(updateGameState(setEmotion(w2, "neutral"),
                         [statusText |-> Status("Answered your question!")]),
                       Say("", res.response), r.turn, ev)
            ELSE IF res.isCorrect
            THEN [speak(updateGameState(setEmotion(w2, "happy"),
                          [statusText |-> Status("Correct!")]),
                        Say("Correct! ", res.response), r.turn, ev)
                    EXCEPT !.endGameTimers = Append(@, w2.gameNo)]
            ELSE speak(updateGameState(setEmotion(w2, "sad"),
                         [statusText |-> Status("Try again!")]),
                       Say("", res.response), r.turn, ev)
      w4 == [setIsProcessing(w3, FALSE) EXCEPT
               !.isProcessingRef = FALSE,
               !.nextTimers = @ \cup {r.turn}]
  IN  w4

JudgeReturn ==
  \E r \in judgeCalls, response \in TaggedResponses, ev \in CancelEvents :
    Commit(judgeAnswered(World, r, handleUserInput(response), ev))

\* the same with any response of at most maxPieces pieces
JudgeReturnAny(maxPieces) ==
  \E r \in judgeCalls, response \in Responses(maxPieces), ev \in CancelEvents :
    Commit(judgeAnswered(World, r, handleUserInput(response), ev))

\* JudgeFail without the finally block
JudgeFailNoFinally ==
  \E r \in judgeCalls :
    LET w1 == setIsLoading([World EXCEPT !.judgeCalls = @ \ {r}], FALSE)
    IN  Commit(setEmotion(w1, "neutral"))

\* the catch and finally of processNextInQueue, when the judge call failed
JudgeFail ==
  \E r \in judgeCalls :
    LET w1 == setIsLoading([World EXCEPT !.judgeCalls = @ \ {r}], FALSE)
        w2 == setEmotion(w1, "neutral")
        w3 == [setIsProcessing(w2, FALSE) EXCEPT
                 !.isProcessingRef = FALSE,
                 !.nextTimers = @ \cup {r.turn}]
    IN  Commit(w3)

\* ------------------------------------------------------------------ timers

\* setTimeout(processNextInQueue, 100) fires: the closure that set it runs
NextTimerFires ==
  \E t \in nextTimers :
    Commit(processNextInQueue([World EXCEPT !.nextTimers = @ \ {t}], t))

\* q without its i-th element
RemoveAt(q, i) == SubSeq(q, 1, i - 1) \o SubSeq(q, i + 1, Len(q))

\* the i-th pending setTimeout(() => endGame(), 5000) fires
EndGameTimer(i) ==
  Commit(endGame([World EXCEPT !.endGameTimers = RemoveAt(@, i)]))

EndGameTimerFires ==
  \E i \in 1..Len(endGameTimers) : EndGameTimer(i)

\* -------------------------------------------------------- the Piper voice

\* initPiper completed: the voice is stored or was downloaded
PiperReady ==
  /\ ~isPiperReady /\ ~useFallback
  /\ Commit([World EXCEPT !.isPiperReady = TRUE, !.effectDue = TRUE])

\* initPiper failed
PiperInitFail ==
  /\ ~isPiperReady /\ ~useFallback
  /\ Commit([World EXCEPT !.useFallback = TRUE, !.effectDue = TRUE])

\* predict answered and audio.play() resolved: the new Audio is playing
PiperPredictReturn ==
  \E r \in piperCalls :
    Commit([World EXCEPT !.piperCalls = @ \ {r},
                         !.audioRef = r.id,
                         !.audios = @ \cup {r}])

\* predict threw, or audio.play() rejected (atPlay): the catch of
\* speakWithPiper, then the catch of speak, which takes the browser voice
PiperFail ==
  \E r \in piperCalls, atPlay \in BOOLEAN, ev \in CancelEvents :
    LET w1 == [World EXCEPT !.piperCalls = @ \ {r},
                            !.audioRef = IF atPlay THEN r.id ELSE @]
    IN  Commit([speakWithBrowser(setIsSpeaking(w1, FALSE), r.text, r.turn, ev)
                  EXCEPT !.synth.starts = r.starts])

\* audio.onended
AudioEnded ==
  \E a \in audios :
    LET w1 == [World EXCEPT !.audios = @ \ {a}, !.audioRef = 0]
    IN  Commit(onEnd(setIsSpeaking(w1, FALSE), a.turn))

\* audio.onerror
AudioError ==
  \E a \in audios :
    LET w1 == [World EXCEPT !.audios = @ \ {a}, !.audioRef = 0]
    IN  Commit(onEnd(setIsSpeaking(w1, FALSE), a.turn))

\* ------------------------------------------------- speechSynthesis events

\* utterance.onstart
SynthStart ==
  /\ synth.phase = "queued"
  /\ Commit(setIsSpeaking([World EXCEPT !.synth.phase = "speaking",
                                        !.synth.starts = @ + 1], TRUE))

\* utterance.onend: playback completed
SynthEnd ==
  /\ synth.phase = "speaking"
  /\ Commit(onEnd(setIsSpeaking([World EXCEPT !.synth = NoSynth], FALSE),
                  synth.turn))

\* utterance.onerror: synthesis failed
SynthError ==
  /\ synth.phase \in {"queued", "speaking"}
  /\ Commit(setIsSpeaking([World EXCEPT !.synth = NoSynth], FALSE))

\* the event a cancelled utterance still delivers
SynthLateEvent ==
  \E e \in synthLate :
    LET w1 == setIsSpeaking([World EXCEPT !.synthLate = @ \ {e}], FALSE)
    IN  Commit(IF e.ev = "end" THEN onEnd(w1, e.turn) ELSE w1)


\* ------------------------------------------------- speech recognition events

RecognitionErrors == {"no-speech", "audio-capture", "not-allowed"}

\* getUserMedia resolved: the .then of startListening
MicGranted ==
  /\ micRequests > 0
  /\ LET w1 == [World EXCEPT !.micRequests = @ - 1]
     IN  Commit(IF canStart(w1)
                THEN [w1 EXCEPT !.recognition = "starting"]
                ELSE [recognitionStop(w1) EXCEPT !.startRetry = TRUE])

\* getUserMedia rejected: the .catch of startListening
MicDenied ==
  /\ micRequests > 0
  /\ Commit(setIsSupported([World EXCEPT !.micRequests = @ - 1], FALSE))

\* the 200 ms retry of startListening
StartRetryFires ==
  /\ startRetry
  /\ Commit([World EXCEPT !.startRetry = FALSE,
                          !.recognition = IF canStart(World) THEN "starting" ELSE @])

\* recognition.onstart
RecStart ==
  /\ recognition = "starting"
  /\ Commit(onStart(setIsListening([World EXCEPT !.recognition = "running"], TRUE),
                    recHandlers))

\* recognition.onresult with a final result: accumulate, restart the silence timer
RecResult(maxUtter) ==
  /\ recognition = "running"
  /\ accumulatedTranscript # NoTranscript \/ nextUtt <= maxUtter
  /\ Commit([World EXCEPT
               !.accumulatedTranscript = IF @ = NoTranscript THEN Utterance(World) ELSE @,
               !.nextUtt = IF accumulatedTranscript = NoTranscript THEN @ + 1 ELSE @,
               !.silenceTimeout = TRUE,
               !.effectDue = TRUE])

\* the 1.5 s silence timer fires: the coalesced transcript goes to onResult
SilenceTimerFires ==
  /\ silenceTimeout
  /\ LET w1 == [World EXCEPT !.silenceTimeout = FALSE]
     IN  Commit(IF accumulatedTranscript # NoTranscript
                THEN [onResult(w1, recHandlers, accumulatedTranscript)
                        EXCEPT !.accumulatedTranscript = NoTranscript]
                ELSE w1)

\* recognition.onerror; the engine then ends
RecError ==
  /\ recognition \in {"starting", "running"}
  /\ \E error \in RecognitionErrors :
       LET w1 == setIsListening([World EXCEPT !.recognition = "stopping"], FALSE)
       IN  Commit(CASE error = "audio-capture" ->
                         [w1 EXCEPT !.restartTimeout = "t1000"]
                    [] error = "not-allowed" -> setIsSupported(w1, FALSE)
                    [] OTHER -> w1)

\* what onend does, of the current recognition or of one aborted earlier
recognitionOnEnd(w) ==
  LET w1 == setIsListening(w, FALSE)
  IN  IF ~w1.isIntentionalStop
      THEN [w1 EXCEPT !.restartTimeout = "t150"]
      ELSE w1

\* recognition.onend
RecEnd ==
  /\ recognition \in {"running", "stopping"}
  /\ Commit(recognitionOnEnd([World EXCEPT !.recognition = "idle"]))

\* onend of a recognition the effect's cleanup aborted
LateEnd ==
  /\ lateEnds > 0
  /\ Commit(recognitionOnEnd([World EXCEPT !.lateEnds = @ - 1]))

\* restartTimeoutRef fires
RestartTimerFires ==
  /\ restartTimeout # "none"
  /\ LET w1 == [World EXCEPT !.restartTimeout = "none"]
         started == [w1 EXCEPT !.recognition = "starting"]
     IN  Commit(CASE restartTimeout = "t150" ->
                       IF canStart(w1) THEN started
                       ELSE [w1 EXCEPT !.restartTimeout = "t500"]
                  [] restartTimeout = "t500" ->
                       IF canStart(w1) THEN started ELSE w1
                  [] OTHER ->
                       IF ~isIntentionalStop /\ canStart(w1) THEN started ELSE w1)

\* The effect of useSpeechRecognition runs again after a render (onResult and
\* onStart are new functions on every render of AdminPage): its cleanup, then
\* a new recognition with the handlers of the current render.
RecognitionEffect ==
  /\ effectDue
  /\ Commit([World EXCEPT
               !.effectDue = FALSE,
               !.isIntentionalStop = TRUE,
               !.restartTimeout = "none",
               !.silenceTimeout = FALSE,
               !.lateEnds = IF recognition # "idle" THEN Min(@ + 1, MaxLate) ELSE @,
               !.recognition = "idle",
               !.recHandlers = Closure(World)])

\* ------------------------------------------- the display and its channel

CharacterEmotions == {"listening", "thinking", "happy", "sad", "neutral"}
DisplayTypes == {"image", "video", "text"}

\* { ...prev, ...updates }
Spread(prev, updates) ==
  [f \in DOMAIN prev \cup DOMAIN updates |->
     IF f \in DOMAIN updates THEN updates[f] ELSE prev[f]]

\* Update Display: the type selected with the content typed
handleSetDisplay(types, maxContent, maxChannel) ==
  \E type \in types, content \in 1..maxContent :
    LET d == [type |-> type, content |-> content] IN
    /\ Len(channel) < maxChannel
    /\ Commit(send(updateGameState(World, [customDisplay |-> d]),
                   [type |-> "set_display", payload |-> d]))

\* one of the five emotion buttons
handleManualEmotion(emotions, maxChannel) ==
  \E emotion \in emotions :
    /\ Len(channel) < maxChannel
    /\ Commit(send(setEmotion(World, emotion),
                   [type |-> "set_emotion", payload |-> emotion]))

\* a DisplayPage mounts (the window is opened, or loaded again): it starts
\* from DEFAULT_STATE and hears only what is posted from now on
FreshDisplay == [NoDisplayPage EXCEPT !.mounted = TRUE]

DisplayMount ==
  /\ display.mounted \in BOOLEAN    \* whether or not a page was mounted before
  /\ Commit([World EXCEPT !.display = FreshDisplay, !.channel = << >>])

showHint(d, hint) ==
  [d EXCEPT !.hintText = hint, !.showHint = TRUE, !.hideTimers = @ + 1]

\* the game_state subscriber that keeps only what DEFAULT_STATE names
onGameStateKnownFields(d, state) ==
  [d EXCEPT !.gameState = [f \in DOMAIN DISPLAY_DEFAULT_STATE |-> state[f]],
            !.received = TRUE]

\* subscribe('game_state'): the mirror is replaced by the payload
onGameState(d, state) ==
  LET d1 == [d EXCEPT !.gameState = state, !.received = TRUE] IN
  IF state.hintText # NoHint /\ state.hintText # d.hintText
  THEN showHint(d1, state.hintText)
  ELSE d1

\* the subscribers of DisplayPage
onMessage(d, m) ==
  CASE m.type = "game_state"  -> onGameState(d, m.payload)
    [] m.type = "set_emotion" ->
         [d EXCEPT !.gameState = Spread(@, [emotion |-> m.payload])]
    [] m.type = "give_hint"   -> showHint(d, m.payload)
    [] m.type = "set_display" ->
         [d EXCEPT !.gameState = Spread(@, [customDisplay |-> m.payload])]

\* channel.onmessage on the display: the oldest message is handled
DisplayReceive ==
  /\ channel # << >>
  /\ Commit([World EXCEPT !.display = onMessage(@, Head(channel)),
                          !.channel = Tail(@)])

\* setTimeout(() => setShowHint(false), 10000)
HideHintTimerFires ==
  /\ display.hideTimers > 0
  /\ Commit([World EXCEPT !.display.showHint = FALSE,
                          !.display.hideTimers = @ - 1])

\* ------------------------------------------------------------------- Next

Next ==
  \/ handleStartGame(MaxGames)
  \/ RiddleReturn
  \/ RiddleFail
  \/ handleStopGame
  \/ handleMuteToggle
  \/ handleBackupTextSubmit(MaxUtter)
  \/ handleGiveHint
  \/ HintReturn
  \/ HintFail
  \/ handleHintsAllowedChange(MaxHintsAllowed)
  \/ handleSaveParams(WordsMax)
  \/ JudgeReturn
  \/ JudgeFail
  \/ NextTimerFires
  \/ EndGameTimerFires
  \/ PiperReady
  \/ PiperInitFail
  \/ PiperPredictReturn
  \/ PiperFail
  \/ AudioEnded
  \/ AudioError
  \/ SynthStart
  \/ SynthEnd
  \/ SynthError
  \/ SynthLateEvent
  \/ MicGranted
  \/ MicDenied
  \/ StartRetryFires
  \/ RecStart
  \/ RecResult(MaxUtter)
  \/ SilenceTimerFires
  \/ RecError
  \/ RecEnd
  \/ LateEnd
  \/ RestartTimerFires
  \/ RecognitionEffect
  \/ handleSetDisplay(DisplayTypes, MaxContent, MaxChannel)
  \/ handleManualEmotion(CharacterEmotions, MaxChannel)
  \/ DisplayMount
  \/ DisplayReceive
  \/ HideHintTimerFires

Spec == Init /\ [][Next]_vars

\* The Session and its mirror: games started and stopped, hints, the custom
\* display and the emotion buttons on the controlling page, a display page
\* that mounts at any time.
NextMirror ==
  \/ handleStartGame(MaxGames)
  \/ RiddleReturn
  \/ handleStopGame
  \/ handleGiveHint
  \/ HintReturn
  \/ handleSetDisplay({"text"}, MaxContent, MaxChannel)
  \/ handleManualEmotion({"happy"}, MaxChannel)
  \/ DisplayMount
  \/ DisplayReceive
  \/ HideHintTimerFires

SpecMirror == Init /\ [][NextMirror]_vars

\* The parameters panel: the operator saves word lists, moves the slider, and
\* starts and stops games.
NextParams ==
  \/ handleSaveParams(WordsMax)
  \/ handleHintsAllowedChange(MaxHintsAllowed)
  \/ handleStartGame(MaxGames)
  \/ RiddleReturn
  \/ RiddleFail
  \/ handleStopGame

SpecParams == Init /\ [][NextParams]_vars

\* ------------------------------------------------- the typed-input sessions
\* The microphone permission is never answered: the operator starts, stops and
\* mutes, and every utterance comes through the backup text field.

NextTyped ==
  \/ handleStartGame(MaxGames)
  \/ RiddleReturn
  \/ RiddleFail
  \/ handleStopGame
  \/ handleMuteToggle
  \/ handleBackupTextSubmit(MaxUtter)
  \/ JudgeReturn
  \/ JudgeFail
  \/ NextTimerFires
  \/ EndGameTimerFires
  \/ SynthStart
  \/ SynthEnd
  \/ SynthError
  \/ SynthLateEvent

SpecTyped == Init /\ [][NextTyped]_vars

\* the same sessions over several games
NextRounds ==
  \/ handleStartGame(RoundsMaxGames)
  \/ RiddleReturn
  \/ RiddleFail
  \/ handleStopGame
  \/ handleMuteToggle
  \/ handleBackupTextSubmit(MaxUtter)
  \/ JudgeReturn
  \/ JudgeFail
  \/ NextTimerFires
  \/ EndGameTimerFires
  \/ SynthStart
  \/ SynthEnd
  \/ SynthError
  \/ SynthLateEvent

SpecRounds == Init /\ [][NextRounds]_vars

\* ------------------------------------------------------------------ hints
\* The operator starts and stops games, gives hints and moves the Hints
\* Allowed slider; nobody speaks or types.

NextHints ==
  \/ handleStartGame(MaxGames)
  \/ RiddleReturn
  \/ RiddleFail
  \/ handleStopGame
  \/ handleGiveHint
  \/ HintReturn
  \/ HintFail
  \/ handleHintsAllowedChange(MaxHintsAllowed)
  \/ SynthStart
  \/ SynthEnd

SpecHints == Init /\ [][NextHints]_vars

\* ------------------------------------------------------- a game in progress
\* The state in which a game is played: handleStartGame, RiddleReturn, the
\* riddle's narration (SynthStart, SynthEnd) and RecognitionEffect have
\* happened, in this order, from Init.  The narration's onEnd was created
\* before startGame and saw no active game, so capture was not started.

PlayingClosure ==
  [ active |-> TRUE, muted |-> FALSE, word |-> 1, riddle |-> 1,
    listening |-> FALSE, speaking |-> FALSE, processing |-> FALSE,
    piper |-> FALSE ]

InitPlaying ==
  /\ params = DEFAULT_PARAMS
  /\ hintCalls = {}
  /\ hintsSent = 0
  /\ gameState = [ isGameActive |-> TRUE, currentWord |-> 1, currentRiddle |-> 1,
                   hintsRemaining |-> DefaultHintsAllowed, hintsUsed |-> 0,
                   emotion |-> "neutral",
                   statusText |-> Status("Game started! Listening..."),
                   hintText |-> NoHint,
    customDisplay |-> NoCustomDisplay ]
  /\ isMuted = FALSE
  /\ isProcessing = FALSE
  /\ usedWords = {1}
  /\ isLMLoading = FALSE
  /\ judgeCalls = {}
  /\ riddleCalls = {}
  /\ processingQueue = << >>
  /\ isProcessingRef = FALSE
  /\ nextTimers = {}
  /\ endGameTimers = << >>
  /\ lastAIResponse = NoAIResponse
  /\ isSpeaking = FALSE
  /\ synth = NoSynth
  /\ synthLate = {}
  /\ isListening = FALSE
  /\ isSupported = TRUE
  /\ isPiperReady = FALSE
  /\ useFallback = FALSE
  /\ piperCalls = {}
  /\ audios = {}
  /\ audioRef = 0
  /\ nextAudio = 1
  /\ recognition = "idle"
  /\ isIntentionalStop = TRUE
  /\ restartTimeout = "none"
  /\ silenceTimeout = FALSE
  /\ accumulatedTranscript = NoTranscript
  /\ micRequests = 0
  /\ startRetry = FALSE
  /\ lateEnds = 0
  /\ effectDue = FALSE
  /\ recHandlers = PlayingClosure
  /\ channel = << >>
  /\ display = NoDisplayPage
  /\ nextUtt = 1
  /\ gameNo = 1

\* The first utterance was typed into the game in progress after the operator
\* had muted and unmuted (which asked for the microphone): from Init by
\* handleStartGame, RiddleReturn, handleMuteToggle, handleMuteToggle,
\* RecognitionEffect, handleBackupTextSubmit.  Its request is with the judge.
InitJudging ==
  /\ params = DEFAULT_PARAMS
  /\ hintCalls = {}
  /\ hintsSent = 0
  /\ gameState = [ isGameActive |-> TRUE, currentWord |-> 1, currentRiddle |-> 1,
                   hintsRemaining |-> DefaultHintsAllowed, hintsUsed |-> 0,
                   emotion |-> "thinking",
                   statusText |-> ProcessingStatus(1),
                   hintText |-> NoHint,
    customDisplay |-> NoCustomDisplay ]
  /\ isMuted = FALSE
  /\ isProcessing = TRUE
  /\ usedWords = {1}
  /\ isLMLoading = TRUE
  /\ judgeCalls = {[utt |-> [text |-> 1, game |-> 1], word |-> 1, riddle |-> 1,
                    turn |-> Turn(PlayingClosure)]}
  /\ riddleCalls = {}
  /\ processingQueue = << >>
  /\ isProcessingRef = TRUE
  /\ nextTimers = {}
  /\ endGameTimers = << >>
  /\ lastAIResponse = NoAIResponse
  /\ isSpeaking = FALSE
  /\ synth = NoSynth
  /\ synthLate = {}
  /\ isListening = FALSE
  /\ isSupported = TRUE
  /\ isPiperReady = FALSE
  /\ useFallback = FALSE
  /\ piperCalls = {}
  /\ audios = {}
  /\ audioRef = 0
  /\ nextAudio = 1
  /\ recognition = "idle"
  /\ isIntentionalStop = TRUE
  /\ restartTimeout = "none"
  /\ silenceTimeout = FALSE
  /\ accumulatedTranscript = NoTranscript
  /\ micRequests = 1
  /\ startRetry = FALSE
  /\ lateEnds = 0
  /\ effectDue = TRUE
  /\ recHandlers = PlayingClosure
  /\ channel = << >>
  /\ display = NoDisplayPage
  /\ nextUtt = 2
  /\ gameNo = 1

\* The first utterance was typed while the session was muted, and stayed in
\* the queue; then the operator unmuted: from Init by handleStartGame,
\* RiddleReturn, handleMuteToggle, handleBackupTextSubmit, RecognitionEffect,
\* handleMuteToggle.
InitQueuedWhileMuted ==
  /\ params = DEFAULT_PARAMS
  /\ hintCalls = {}
  /\ hintsSent = 0
  /\ gameState = [ isGameActive |-> TRUE, currentWord |-> 1, currentRiddle |-> 1,
                   hintsRemaining |-> DefaultHintsAllowed, hintsUsed |-> 0,
                   emotion |-> "listening",
                   statusText |-> Status("Game started! Listening..."),
                   hintText |-> NoHint,
    customDisplay |-> NoCustomDisplay ]
  /\ isMuted = FALSE
  /\ isProcessing = FALSE
  /\ usedWords = {1}
  /\ isLMLoading = FALSE
  /\ judgeCalls = {}
  /\ riddleCalls = {}
  /\ processingQueue = << [text |-> 1, game |-> 1] >>
  /\ isProcessingRef = FALSE
  /\ nextTimers = {}
  /\ endGameTimers = << >>
  /\ lastAIResponse = NoAIResponse
  /\ isSpeaking = FALSE
  /\ synth = NoSynth
  /\ synthLate = {}
  /\ isListening = FALSE
  /\ isSupported = TRUE
  /\ isPiperReady = FALSE
  /\ useFallback = FALSE
  /\ piperCalls = {}
  /\ audios = {}
  /\ audioRef = 0
  /\ nextAudio = 1
  /\ recognition = "idle"
  /\ isIntentionalStop = FALSE
  /\ restartTimeout = "none"
  /\ silenceTimeout = FALSE
  /\ accumulatedTranscript = NoTranscript
  /\ micRequests = 1
  /\ startRetry = FALSE
  /\ lateEnds = 0
  /\ effectDue = TRUE
  /\ recHandlers = [PlayingClosure EXCEPT !.muted = TRUE]
  /\ channel = << >>
  /\ display = NoDisplayPage
  /\ nextUtt = 2
  /\ gameNo = 1

\* ------------------------------------------------------ calls of startGame
\* The operator has saved a word list of one to WordsMax words on the freshly
\* loaded page (handleSaveParams from Init; RecognitionEffect has run), and
\* startGame is called again and again, whatever the session's state.

InitWords ==
  /\ params \in {[DEFAULT_PARAMS EXCEPT !.wordList = 1..n] : n \in 1..WordsMax}
  /\ hintCalls = {}
  /\ hintsSent = 0
  /\ gameState = DEFAULT_GAME_STATE
  /\ isMuted = FALSE
  /\ isProcessing = FALSE
  /\ usedWords = {}
  /\ isLMLoading = FALSE
  /\ judgeCalls = {}
  /\ riddleCalls = {}
  /\ processingQueue = << >>
  /\ isProcessingRef = FALSE
  /\ nextTimers = {}
  /\ endGameTimers = << >>
  /\ lastAIResponse = NoAIResponse
  /\ isSpeaking = FALSE
  /\ synth = NoSynth
  /\ synthLate = {}
  /\ isListening = FALSE
  /\ isSupported = TRUE
  /\ isPiperReady = FALSE
  /\ useFallback = FALSE
  /\ piperCalls = {}
  /\ audios = {}
  /\ audioRef = 0
  /\ nextAudio = 1
  /\ recognition = "idle"
  /\ isIntentionalStop = TRUE
  /\ restartTimeout = "none"
  /\ silenceTimeout = FALSE
  /\ accumulatedTranscript = NoTranscript
  /\ micRequests = 0
  /\ startRetry = FALSE
  /\ lateEnds = 0
  /\ effectDue = FALSE
  /\ recHandlers = [ active |-> FALSE, muted |-> FALSE, word |-> NoWord,
                     riddle |-> NoRiddle, listening |-> FALSE,
                     speaking |-> FALSE, processing |-> FALSE,
                     piper |-> FALSE ]
  /\ channel = << >>
  /\ display = NoDisplayPage
  /\ nextUtt = 1
  /\ gameNo = 0

\* startGame() is called; gameNo counts the calls
StartGameCall(extra) ==
  /\ gameNo < Cardinality(params.wordList) + extra
  /\ \E selectedWord \in startGameWords(World) :
       Commit(startGame([World EXCEPT !.gameNo = @ + 1], selectedWord))

NextWords == StartGameCall(ExtraCalls)

SpecWords == InitWords /\ [][NextWords]_vars

\* ------------------------------------------------------- calls of useHint
\* A game in progress with any setting of the slider (made before the game
\* was started) and any number of hints already taken, each of which failed
\* to generate; a consumer of the context calls useHint again and again.

InitUseHint ==
  /\ params \in {[DEFAULT_PARAMS EXCEPT !.hintsAllowed = a] : a \in 0..SliderMax}
  /\ hintCalls = {}
  /\ hintsSent = 0
  /\ gameState \in
       {[ isGameActive |-> TRUE, currentWord |-> 1, currentRiddle |-> 1,
          hintsRemaining |-> r, hintsUsed |-> params.hintsAllowed - r,
          emotion |-> "neutral",
          statusText |-> Status("Game started! Listening..."),
          hintText |-> NoHint,
    customDisplay |-> NoCustomDisplay ] : r \in 0..params.hintsAllowed}
  /\ isMuted = FALSE
  /\ isProcessing = FALSE
  /\ usedWords = {1}
  /\ isLMLoading = FALSE
  /\ judgeCalls = {}
  /\ riddleCalls = {}
  /\ processingQueue = << >>
  /\ isProcessingRef = FALSE
  /\ nextTimers = {}
  /\ endGameTimers = << >>
  /\ lastAIResponse = NoAIResponse
  /\ isSpeaking = FALSE
  /\ synth = NoSynth
  /\ synthLate = {}
  /\ isListening = FALSE
  /\ isSupported = TRUE
  /\ isPiperReady = FALSE
  /\ useFallback = FALSE
  /\ piperCalls = {}
  /\ audios = {}
  /\ audioRef = 0
  /\ nextAudio = 1
  /\ recognition = "idle"
  /\ isIntentionalStop = TRUE
  /\ restartTimeout = "none"
  /\ silenceTimeout = FALSE
  /\ accumulatedTranscript = NoTranscript
  /\ micRequests = 0
  /\ startRetry = FALSE
  /\ lateEnds = 0
  /\ effectDue = FALSE
  /\ recHandlers = PlayingClosure
  /\ channel = << >>
  /\ display = NoDisplayPage
  /\ nextUtt = 1
  /\ gameNo = 1

\* useHint() is called
UseHintCall == Commit(useHint(World).w)

NextUseHint == UseHintCall

SpecUseHint == InitUseHint /\ [][NextUseHint]_vars

\* ---------------------------------------------------- uninterrupted turns
\* A game in progress in which the operator neither stops nor mutes.  Every
\* judge call returns or fails, and the 100 ms timer fires once it is set.

NextTurns ==
  \/ handleBackupTextSubmit(TurnsMaxUtter)
  \/ JudgeReturn
  \/ JudgeFail
  \/ NextTimerFires
  \/ EndGameTimerFires

SpecTurns ==
  /\ InitPlaying /\ [][NextTurns]_vars
  /\ WF_vars(JudgeReturn \/ JudgeFail)
  /\ WF_vars(NextTimerFires)

\* the same turns with their narration on the browser voice
NextNarrated ==
  \/ handleBackupTextSubmit(TurnsMaxUtter)
  \/ JudgeReturn
  \/ JudgeFail
  \/ NextTimerFires
  \/ EndGameTimerFires
  \/ SynthStart
  \/ SynthEnd

SpecNarrated == InitPlaying /\ [][NextNarrated]_vars

\* ------------------------------------------------------- spoken utterances
\* The microphone is granted while the first request is with the judge; the
\* player speaks or the operator types, and nobody stops or mutes.

NextSpeech ==
  \/ handleBackupTextSubmit(MaxUtter)
  \/ JudgeReturn
  \/ JudgeFail
  \/ NextTimerFires
  \/ SynthStart
  \/ SynthEnd
  \/ SynthError
  \/ MicGranted
  \/ RecStart
  \/ RecResult(MaxUtter)
  \/ SilenceTimerFires
  \/ RecEnd
  \/ LateEnd
  \/ RestartTimerFires
  \/ RecognitionEffect

SpecSpeech == InitJudging /\ [][NextSpeech]_vars

\* ------------------------------------------------ the judge's free response
\* The requests of a game in progress are answered with any response of at
\* most MaxPieces pieces; the answers are narrated on the browser voice.
NextResolve ==
  \/ JudgeReturnAny(MaxPieces)
  \/ handleBackupTextSubmit(MaxUtter)
  \/ NextTimerFires
  \/ SynthStart
  \/ SynthEnd

SpecResolve == InitJudging /\ [][NextResolve]_vars

\* ------------------------------------------------- muting a live microphone
\* An utterance waits in the queue, the microphone is granted, the player
\* speaks and the operator mutes and unmutes.

NextFlush ==
  \/ handleMuteToggle
  \/ JudgeReturn
  \/ NextTimerFires
  \/ SynthStart
  \/ SynthEnd
  \/ MicGranted
  \/ StartRetryFires
  \/ RecStart
  \/ RecResult(MaxUtter)
  \/ SilenceTimerFires
  \/ RecEnd
  \/ LateEnd
  \/ RestartTimerFires
  \/ RecognitionEffect

SpecFlush == InitQueuedWhileMuted /\ [][NextFlush]_vars

\* ------------------------------------------------- the ways a game ends
\* A game in progress with capture: it ends by the Stop button or by the timer
\* of a correct answer.
NextEnds ==
  \/ handleStopGame
  \/ handleBackupTextSubmit(MaxUtter)
  \/ JudgeReturn
  \/ NextTimerFires
  \/ EndGameTimerFires
  \/ SynthStart
  \/ SynthEnd
  \/ MicGranted
  \/ RecStart
  \/ RecEnd
  \/ LateEnd
  \/ RestartTimerFires
  \/ RecognitionEffect

SpecEnds == InitPlaying /\ [][NextEnds]_vars

\* --------------------------------------------------- recovery after failures
\* A game in progress in which the operator only types the player's words.
\* Whatever is pending happens: a judge call returns or fails, timers fire,
\* the narrator and the recognition engine report, the effect re-runs.

NextRecovery ==
  \/ handleBackupTextSubmit(MaxUtter)
  \/ JudgeReturn
  \/ JudgeFail
  \/ NextTimerFires
  \/ SynthStart
  \/ SynthEnd
  \/ SynthError
  \/ MicGranted
  \/ StartRetryFires
  \/ RecStart
  \/ RecError
  \/ RecEnd
  \/ LateEnd
  \/ RestartTimerFires
  \/ RecognitionEffect

SpecRecovery ==
  /\ InitPlaying /\ [][NextRecovery]_vars
  /\ WF_vars(JudgeReturn \/ JudgeFail)
  /\ WF_vars(NextTimerFires)
  /\ WF_vars(SynthStart)
  /\ WF_vars(SynthEnd \/ SynthError)
  /\ WF_vars(MicGranted)
  /\ WF_vars(StartRetryFires)
  /\ WF_vars(RecStart)
  /\ WF_vars(RecEnd)
  /\ WF_vars(LateEnd)
  /\ WF_vars(RestartTimerFires)
  /\ WF_vars(RecognitionEffect)

\* ------------------------------------------------------- the Piper voice
\* A game in progress on a page whose Piper voice was ready before the game
\* was started: from Init by PiperReady, handleStartGame, RiddleReturn, the
\* riddle's narration (PiperPredictReturn, AudioEnded) and RecognitionEffect.
\* The operator types the player's words; narration is by the Piper voice,
\* or by the browser voice when Piper fails.

PiperClosure == [PlayingClosure EXCEPT !.piper = TRUE]

InitPlayingPiper ==
  /\ isPiperReady = TRUE
  /\ useFallback = FALSE
  /\ piperCalls = {}
  /\ audios = {}
  /\ audioRef = 0
  /\ nextAudio = 2
  /\ params = DEFAULT_PARAMS
  /\ hintCalls = {}
  /\ hintsSent = 0
  /\ gameState = [ isGameActive |-> TRUE, currentWord |-> 1, currentRiddle |-> 1,
                   hintsRemaining |-> DefaultHintsAllowed, hintsUsed |-> 0,
                   emotion |-> "neutral",
                   statusText |-> Status("Game started! Listening..."),
                   hintText |-> NoHint,
    customDisplay |-> NoCustomDisplay ]
  /\ isMuted = FALSE
  /\ isProcessing = FALSE
  /\ usedWords = {1}
  /\ isLMLoading = FALSE
  /\ judgeCalls = {}
  /\ riddleCalls = {}
  /\ processingQueue = << >>
  /\ isProcessingRef = FALSE
  /\ nextTimers = {}
  /\ endGameTimers = << >>
  /\ lastAIResponse = NoAIResponse
  /\ isSpeaking = FALSE
  /\ synth = NoSynth
  /\ synthLate = {}
  /\ isListening = FALSE
  /\ isSupported = TRUE
  /\ recognition = "idle"
  /\ isIntentionalStop = TRUE
  /\ restartTimeout = "none"
  /\ silenceTimeout = FALSE
  /\ accumulatedTranscript = NoTranscript
  /\ micRequests = 0
  /\ startRetry = FALSE
  /\ lateEnds = 0
  /\ effectDue = FALSE
  /\ recHandlers = PiperClosure
  /\ channel = << >>
  /\ display = NoDisplayPage
  /\ nextUtt = 1
  /\ gameNo = 1

NextPiper ==
  \/ handleBackupTextSubmit(MaxUtter)
  \/ JudgeReturn
  \/ JudgeFail
  \/ NextTimerFires
  \/ PiperPredictReturn
  \/ PiperFail
  \/ AudioEnded
  \/ AudioError
  \/ SynthStart
  \/ SynthEnd
  \/ SynthError

SpecPiper == InitPlayingPiper /\ [][NextPiper]_vars

\* ------------------------------------------------------ shared vocabulary

InFlight == {r.utt : r \in judgeCalls}
Issued == {r.utt : r \in judgeCalls' \ judgeCalls}
Queued == Range(processingQueue)

\* ---------------------------------------------------------------- C1
\* C1: at most one resolve-input request (a handleUserInput call awaiting the
\* judge) is in flight at any time.
C1_OneInFlight == Cardinality(judgeCalls) <= 1

\* a request is in flight while a later utterance waits in the queue
C1_QueuedBehindRequest ==
  /\ Cardinality(judgeCalls) = 1
  /\ isProcessingRef
  /\ Len(processingQueue) > 0

\* ---------------------------------------------------------------- C2
\* the utterance numbered n has been issued to the judge and its call is over
Resolved(n) ==
  /\ nextUtt > n
  /\ \A u \in Queued \cup InFlight : u.text # n

\* C2: requests are issued one at a time, each for the oldest queued utterance
\* (or for the utterance just submitted when nothing waits), which leaves the
\* queue and never enters it again; and an utterance queued behind a request in
\* flight is eventually resolved if the session stays active and unmuted.
C2_FifoOnce ==
  /\ [][ /\ Cardinality(Issued) <= 1
         /\ \A u \in Issued :
              /\ u = IF processingQueue # << >> THEN Head(processingQueue)
                                                ELSE Utterance(World)
              /\ u \notin Range(processingQueue')
         /\ \A u \in Range(processingQueue') :
              u \in Queued \/ u = Utterance(World)
       ]_vars
  /\ \A n \in 1..TurnsMaxUtter :
       (/\ \E u \in Queued : u.text = n
        /\ isProcessingRef /\ gameState.isGameActive /\ ~isMuted)
         ~> (Resolved(n) \/ ~gameState.isGameActive \/ isMuted)

\* three utterances wait while an earlier one is with the judge
C2_ThreeQueued ==
  /\ Len(processingQueue) = 3
  /\ Cardinality(judgeCalls) = 1
  /\ gameState.isGameActive

\* ---------------------------------------------------------------- C3
\* the utterance u is in the queue or with the judge after the step
HeldNext(u) ==
  \/ u \in Range(processingQueue')
  \/ u \in {r.utt : r \in judgeCalls'}

C4_IssuedOnlyActiveUnmuted ==
  [][Issued # {} => (gameState.isGameActive /\ ~isMuted)]_vars

\* ---------------------------------------------------------------- C5
\* C5: muting empties the queue, and no utterance that was queued when the
\* operator muted is sent to the judge.
C5_MuteDiscardsQueued ==
  [][ ( handleMuteToggle /\ ~isMuted )
      => /\ processingQueue' = << >>
         /\ \A u \in Queued : ~HeldNext(u) ]_vars

\* ---------------------------------------------------------------- C6
\* C6: the queue is emptied whenever the session ends, so an utterance
\* enqueued during one game is never resolved during a later game.
C6_NoCarryOver ==
  [][\A u \in Issued : u.game = gameNo]_vars

\* ---------------------------------------------------------------- C7
\* C7: when the judge call of a turn fails, emotion is set to neutral (never
\* sad), nothing is narrated, no ai_response is broadcast, the in-flight guard
\* is released and the queue is looked at again after 100 ms; with the guard
\* released an utterance typed into an active, unmuted session is issued.
C7_FailedTurn ==
  [][ /\ JudgeFail =>
           /\ gameState'.emotion = "neutral"
           /\ synth' = synth /\ synthLate' = synthLate
           /\ lastAIResponse' = lastAIResponse
           /\ ~isProcessingRef'
           /\ nextTimers' # {}
           /\ processingQueue' = processingQueue
      /\ ( /\ handleBackupTextSubmit(MaxUtter)
           /\ ~isProcessingRef /\ ~isMuted ) => Issued # {}
    ]_vars

\* a judge call has failed: the guard is free again and the status text of the
\* failed turn is still shown
C7_AfterFailure ==
  /\ ~isProcessingRef
  /\ judgeCalls = {}
  /\ gameState.statusText.kind = "Processing"
  /\ gameState.emotion = "neutral"
  /\ nextTimers # {}

\* ---------------------------------------------------------------- C8
\* C8: once a turn has completed (the guard is released), the emotion is not
\* thinking, the processing flag is false and the status text is not the
\* "Processing: ..." text.
C8_NotLatched ==
  ~isProcessingRef =>
     /\ gameState.emotion # "thinking"
     /\ ~isProcessing
     /\ gameState.statusText.kind # "Processing"

\* ---------------------------------------------------------------- C9
\* C9: while the session is active and not muted, capture that is not
\* listening eventually listens again without operator action.
C9_ListensAgain ==
  (gameState.isGameActive /\ ~isMuted /\ ~isListening)
    ~> (isListening \/ ~gameState.isGameActive \/ isMuted)

\* ---------------------------------------------------------------- C10
\* C10: the step that handles the judge's answer never deactivates the
\* session; a Correct answer (emotion happy) schedules the end timer, a
\* Question or an Incorrect answer schedules none; the end timer deactivates
\* the session when it fires.
C10_EndAfterDelay ==
  [][ /\ JudgeReturn =>
           /\ gameState'.isGameActive = gameState.isGameActive
           /\ IF gameState'.emotion = "happy"
              THEN endGameTimers' = Append(endGameTimers, gameNo)
              ELSE endGameTimers' = endGameTimers
      /\ EndGameTimerFires => ~gameState'.isGameActive
    ]_vars

\* a correct answer was given: the session is still active, the timer pending
C10_CorrectPending ==
  /\ gameState.isGameActive
  /\ gameState.emotion = "happy"
  /\ endGameTimers # << >>

\* ---------------------------------------------------------------- C11
\* C11: an active game is never ended by an end timer that was set during an
\* earlier game (a new round cancels or supersedes the pending end timer).
C11_TimerOfThisGame ==
  [][ \A i \in 1..Len(endGameTimers) :
        ( EndGameTimer(i) /\ gameState.isGameActive )
          => endGameTimers[i] = gameNo ]_vars

\* ---------------------------------------------------------------- C12
\* startListening was called and asked for the microphone in this step
CaptureRequested == micRequests' > micRequests

\* C12: capture is never started (startListening asking for the microphone)
\* while the session is muted or inactive.
C12_StartsOnlyActiveUnmuted ==
  [][CaptureRequested => (gameState'.isGameActive /\ ~isMuted')]_vars

\* ---------------------------------------------------------------- C13
\* C13: in every state hintsRemaining = hintsAllowed - hintsUsed and
\* 0 <= hintsRemaining <= hintsAllowed, hintsAllowed being the configured
\* parameter.
C13_HintsAccount ==
  /\ gameState.hintsRemaining = params.hintsAllowed - gameState.hintsUsed
  /\ 0 <= gameState.hintsRemaining
  /\ gameState.hintsRemaining <= params.hintsAllowed

\* ---------------------------------------------------------------- C14
\* C14: useHint returns false and leaves the Session unchanged when
\* hintsRemaining is 0; otherwise it returns true, takes one from
\* hintsRemaining and adds one to hintsUsed; hintsRemaining never goes below 0.
C14_UseHint ==
  /\ [](gameState.hintsRemaining >= 0)
  /\ [](useHint(World).ok <=> gameState.hintsRemaining # 0)
  /\ [](gameState.hintsRemaining = 0 => useHint(World).w = World)
  /\ [][ UseHintCall =>
           IF gameState.hintsRemaining = 0
           THEN gameState' = gameState
           ELSE gameState' = [gameState EXCEPT !.hintsRemaining = @ - 1,
                                               !.hintsUsed = @ + 1] ]_vars

\* the last hint was just taken: the next call is past exhaustion
C14_Exhausted ==
  /\ gameState.hintsRemaining = 0
  /\ gameState.hintsUsed = params.hintsAllowed
  /\ gameState.hintsUsed > 1
  /\ effectDue

\* ---------------------------------------------------------------- C15
\* C15 (as the claim states it): the word and the riddle are both empty
\* exactly when the session is inactive, and both non-empty exactly when it
\* is active.
C15_EmptyIffInactive ==
  /\ ~gameState.isGameActive
       <=> (gameState.currentWord = NoWord /\ gameState.currentRiddle = NoRiddle)
  /\ gameState.isGameActive
       <=> (gameState.currentWord # NoWord /\ gameState.currentRiddle # NoRiddle)

\* C15 (amended): the word and the riddle are both empty until the first
\* game is started; while the session is active the word is not empty (the
\* riddle is, until it has been generated); a riddle is only ever held with a
\* word; and the word changes only in the step that starts a game, which
\* makes the session active and empties the riddle, so the end of a game
\* clears nothing.
C15_WordKeptAfterEnd ==
  /\ [](gameNo = 0 => /\ ~gameState.isGameActive
                       /\ gameState.currentWord = NoWord
                       /\ gameState.currentRiddle = NoRiddle)
  /\ [](gameState.isGameActive => gameState.currentWord # NoWord)
  /\ [](gameState.currentRiddle # NoRiddle => gameState.currentWord # NoWord)
  /\ [][ gameState'.currentWord # gameState.currentWord
           => /\ gameNo' = gameNo + 1
              /\ gameState'.isGameActive
              /\ gameState'.currentRiddle = NoRiddle ]_vars
  /\ [][ (gameState.isGameActive /\ ~gameState'.isGameActive)
           => /\ gameState'.currentWord = gameState.currentWord
              /\ gameState'.currentRiddle = gameState.currentRiddle ]_vars

\* a game has ended and its word and riddle are still held
C15_EndedWithWord ==
  /\ ~gameState.isGameActive
  /\ gameState.statusText = Status("Game ended")
  /\ gameState.currentWord # NoWord
  /\ gameState.currentRiddle # NoRiddle

\* ---------------------------------------------------------------- C16
\* C16: with a fixed list of N distinct words and an empty used set at the
\* start, the first N calls of startGame select N distinct words; every call
\* selects a word of the list that is not in the used set, unless every word
\* of the list has been used, and then the used set is emptied before the
\* selection (it holds just the selected word afterwards).
C16_EachWordOnce ==
  /\ [](usedWords \subseteq params.wordList)
  /\ [](gameNo <= Cardinality(params.wordList)
          => Cardinality(usedWords) = gameNo)
  /\ [][ StartGameCall(ExtraCalls) =>
           LET selectedWord == gameState'.currentWord IN
             /\ selectedWord \in params.wordList
             /\ IF usedWords # params.wordList
                THEN /\ selectedWord \notin usedWords
                     /\ usedWords' = usedWords \cup {selectedWord}
                ELSE usedWords' = {selectedWord} ]_vars

\* the call after the list was exhausted has selected a word again
C16_AfterReset ==
  /\ Cardinality(params.wordList) >= 3
  /\ gameNo = Cardinality(params.wordList) + 1
  /\ usedWords = {gameState.currentWord}

\* ---------------------------------------------------------------- C17
\* C17: stopListening suppresses every pending auto-restart: when it returns
\* (here: in the step that mutes), no restart timer and no retry timer that
\* would invoke recognition start() is pending.
C17_StopCancelsTimers ==
  [][ ( handleMuteToggle /\ ~isMuted )
      => ( ~startRetry' /\ restartTimeout' = "none" ) ]_vars

\* ---------------------------------------------------------------- C18
\* C18: after a transient recognition error in a session that was not
\* intentionally stopped (the engine is winding down, the flag is not set,
\* capture is still supported), capture is listening again without the
\* operator doing anything.
C18_ErrorRecovers ==
  (recognition = "stopping" /\ ~isIntentionalStop /\ ~isListening /\ isSupported)
    ~> isListening

\* ---------------------------------------------------------------- C19
\* C19: once a 'not-allowed' error has made the capture session unsupported,
\* no restart timer is pending and none starts recognition again.
C19_NoRestartWhenUnsupported ==
  /\ [](~isSupported => restartTimeout = "none")
  /\ [][ (RestartTimerFires /\ ~isSupported) => recognition' = recognition ]_vars

\* ---------------------------------------------------------------- C20
\* the number of utterances that can be heard: the Audio elements that are
\* playing and the utterance the browser is speaking
Audible ==
  Cardinality(audios) + (IF synth.phase = "speaking" THEN 1 ELSE 0)

\* C20: at most one utterance is audible at any time, with the Piper voice
\* and with the browser voice.
C20_OneAudible == Audible <= 1

\* ---------------------------------------------------------------- C21
\* C21: an utterance whose playback started receives its onEnd when it fails
\* during playback (the step of utterance.onerror on a speaking utterance
\* leaves the state that onEnd leaves).
C21_StartedGetsOnEnd ==
  [][ ( SynthError /\ synth.phase = "speaking" )
      => Commit(onEnd(setIsSpeaking([World EXCEPT !.synth = NoSynth], FALSE),
                      synth.turn)) ]_vars

\* ---------------------------------------------------------------- C22
\* C22: the Session sent as a game_state event and applied to a fresh mirror
\* is reproduced field by field: the mirror's game state equals the Session
\* that was sent; and whenever the display handles a game_state event, its
\* game state afterwards is the payload of that event.
C22_MirrorReproduces ==
  /\ [] LET w == sendGameState([World EXCEPT !.display = FreshDisplay,
                                             !.channel = << >>], gameState)
            d == onMessage(FreshDisplay, w.channel[1])
        IN  /\ Len(w.channel) = 1
            /\ DOMAIN d.gameState = DOMAIN gameState
            /\ \A f \in DOMAIN gameState : d.gameState[f] = gameState[f]
            /\ d.gameState = gameState
  /\ [][ ( DisplayReceive /\ Head(channel).type = "game_state" )
         => display'.gameState = Head(channel).payload ]_vars

\* the display has applied a game_state event of a game in progress that
\* carries a riddle, a hint and a custom display
C22_MirrorHoldsSession ==
  /\ display.mounted /\ display.received
  /\ display.gameState = gameState
  /\ gameState.isGameActive
  /\ gameState.currentRiddle # NoRiddle
  /\ gameState.hintText # NoHint
  /\ gameState.hintsUsed > 0
  /\ gameState.customDisplay # NoCustomDisplay

\* ---------------------------------------------------------------- C23
\* C23: every step that changes the Session while a display is mounted posts,
\* as the last message, a game_state event carrying the resulting Session; so
\* a display that mounted at any time and has handled a game_state event holds
\* a mirror equal to the controlling Session as soon as nothing posted later
\* is still on its way.
C23_MutationBroadcast ==
  /\ [][ (gameState' # gameState /\ display.mounted)
         => /\ channel' # << >>
            /\ channel'[Len(channel')] =
                 [type |-> "game_state", payload |-> gameState'] ]_vars
  /\ []( (display.mounted /\ display.received /\ channel = << >>)
         => display.gameState = gameState )

\* a display that mounted during a game, after the riddle had arrived, has
\* handled the game_state event of a later change and holds the Session
C23_LateDisplaySynced ==
  /\ display.mounted /\ display.received /\ channel = << >>
  /\ gameState.isGameActive
  /\ gameState.currentRiddle # NoRiddle
  /\ gameState.emotion = "happy"
  /\ display.gameState = gameState

\* ---------------------------------------------------------------- C24
\* C24: the in-flight guard stays set until the narration of the turn has
\* completed: no utterance is dequeued (no judge request is issued, and the
\* guard is not held by a second turn) while the narration of the previous
\* turn is still playing.
C24_GuardCoversNarration ==
  /\ [][ Issued # {} => synth.phase # "speaking" ]_vars
  /\ [](synth.phase = "speaking" => ~isProcessingRef)

\* ---------------------------------------------------------------- C25
\* C25: immediately after handleMuteToggle (to muted) or handleStopGame the
\* queue is empty and the in-flight guard is clear, also when a judge request
\* was in flight.
C25_MuteAndStopClearGuard ==
  [][ ( handleStopGame \/ (handleMuteToggle /\ isMuted') )
      => (processingQueue' = << >> /\ ~isProcessingRef') ]_vars

\* ---------------------------------------------------------------- C26
\* the text is handed to the narrator in world w (to the synthesiser, or to
\* the Piper voice as a new request)
Narrates(w, text) ==
  \/ w.synth.phase = "queued" /\ w.synth.text = text
  \/ \E c \in w.piperCalls \ piperCalls : c.text = text

\* the branch of processNextInQueue that world w is the result of
Branch(w, emotion, status, text) ==
  /\ w.gameState.emotion = emotion
  /\ w.gameState.statusText = Status(status)
  /\ Narrates(w, text)

\* C26: on dequeue the emotion is thinking and the status a processing status
\* naming the utterance; when the judge answers, a Question gives neutral, a
\* Correct guess happy and an Incorrect guess sad, the response is narrated in
\* all three cases (after the prefix "Correct! " for a correct guess, which
\* alone schedules the end of the game), and every judge answer takes exactly
\* one of the three branches.  A response found to hold the question marker
\* counts as a Question whatever else it holds.
C26_OneBranchPerAnswer ==
  /\ [][ Issued # {}
         => \E u \in Issued :
              /\ gameState'.emotion = "thinking"
              /\ gameState'.statusText = ProcessingStatus(u.text)
              /\ isProcessing' /\ isProcessingRef' ]_vars
  /\ [] \A r \in judgeCalls, response \in TaggedResponses, ev \in CancelEvents :
          LET res == handleUserInput(response)
              w == judgeAnswered(World, r, res, ev)
              question  == Branch(w, "neutral", "Answered your question!",
                                  Say("", res.response))
              correct   == Branch(w, "happy", "Correct!",
                                  Say("Correct! ", res.response))
              incorrect == Branch(w, "sad", "Try again!", Say("", res.response))
          IN  /\ question  <=> res.isQuestion
              /\ correct   <=> (~res.isQuestion /\ res.isCorrect)
              /\ incorrect <=> (~res.isQuestion /\ ~res.isCorrect)
              /\ Len(w.endGameTimers) = Len(endGameTimers) + (IF correct THEN 1 ELSE 0)
              /\ w.lastAIResponse = [utt |-> r.utt.text, message |-> res.response]
  /\ [][ JudgeReturn
         => \E r \in judgeCalls, response \in TaggedResponses, ev \in CancelEvents :
              Commit(judgeAnswered(World, r, handleUserInput(response), ev)) ]_vars

\* the judge has rated a guess as correct: the emotion is happy, the prefixed
\* response is with the synthesiser and the end of the game is scheduled
C26_CorrectNarrated ==
  /\ gameState.emotion = "happy"
  /\ gameState.statusText = Status("Correct!")
  /\ synth.phase = "queued" /\ synth.text = Say("Correct! ", <<"text">>)
  /\ endGameTimers # << >>
  /\ judgeCalls = {}

\* ---------------------------------------------------------------- C27
\* C27: endGame sets the session inactive, the emotion neutral and the status
\* "Game ended", and leaves the secret word, the riddle, hintsRemaining,
\* hintsUsed, the hint text and the custom display as they were; a second
\* endGame changes nothing more.  Stopping the game keeps the same frame.
C27_EndGameFrame ==
  /\ [] LET w == endGame(World) IN
        /\ ~w.gameState.isGameActive
        /\ w.gameState.emotion = "neutral"
        /\ w.gameState.statusText = Status("Game ended")
        /\ \A f \in DOMAIN gameState \ {"isGameActive", "emotion", "statusText"} :
             w.gameState[f] = gameState[f]
        /\ DOMAIN w.gameState = DOMAIN gameState
        /\ endGame(w).gameState = w.gameState
        /\ [w EXCEPT !.gameState = gameState,
                     !.effectDue = effectDue, !.gameStateSet = FALSE] = World
  /\ [][ handleStopGame
         => /\ ~gameState'.isGameActive /\ gameState'.emotion = "neutral"
            /\ \A f \in {"currentWord", "currentRiddle", "hintsRemaining",
                         "hintsUsed", "customDisplay"} :
                 gameState'[f] = gameState[f] ]_vars

\* a game with a riddle, a hint taken and a custom display has been stopped
C27_StoppedKeepsAll ==
  /\ ~gameState.isGameActive
  /\ gameState.statusText = Status("Game ended")
  /\ gameState.currentWord # NoWord
  /\ gameState.currentRiddle # NoRiddle
  /\ gameState.hintsUsed > 0
  /\ gameState.customDisplay # NoCustomDisplay

\* ---------------------------------------------------------------- C28
\* C28: the configured word list is non-empty in every reachable state, also
\* after handleSaveParams, and the word of a game is a member of the list
\* from which it was drawn.
C28_WordListNonEmpty ==
  /\ [](params.wordList # {})
  /\ [][ gameNo' # gameNo => gameState'.currentWord \in params.wordList ]_vars

\* ---------------------------------------------------------------- C29
\* timers that will call recognition.start() when they fire
PendingRestarts ==
  (IF restartTimeout # "none" THEN 1 ELSE 0) + (IF startRetry THEN 1 ELSE 0)

\* C29: at most one restart attempt is pending at any time in the capture
\* session.
C29_OneRestartPending == PendingRestarts <= 1

\* ---------------------------------------------------------------- C30
\* C30: a text whose narration fails on the Piper voice at speak time is
\* handed once to the browser voice, and the speak call produces a single
\* onStart for that text: no text has had onStart called for it twice.
C30_SingleStart ==
  /\ synth.starts <= 1
  /\ \A c \in piperCalls \cup audios : c.starts <= 1

\* ---------------------------------------------------------------- C31
\* C31: the message handleUserInput returns (shown as lastAIResponse) holds no
\* classification marker, whatever the judge's response was.
C31_NoMarkerLeft ==
  \A i \in 1..Len(lastAIResponse.message) : lastAIResponse.message[i] \notin Markers

\* ---------------------------------------------------------------- C32
\* C32: the pending queue is empty in every state where the session is muted.
C32_MutedQueueEmpty == isMuted => processingQueue = << >>

\* ---------------------------------------------------------------- C33
\* C33: when a judge request completes in a session that is muted or no longer
\* active, the completion does not narrate, does not change the session's
\* emotion or status, does not record or broadcast an AI response and does not
\* schedule endGame.
C33_LateJudgeInert ==
  [][ (JudgeReturn /\ (isMuted \/ ~gameState.isGameActive))
        => /\ synth' = synth
           /\ gameState' = gameState
           /\ lastAIResponse' = lastAIResponse
           /\ channel' = channel
           /\ endGameTimers' = endGameTimers ]_vars

\* ---------------------------------------------------------------- C34
\* C34: muting with accumulated speech that was not yet delivered starts no
\* judge request: the transcript stopListening flushes is not resolved.
C34_FlushNotResolved ==
  [][ ( handleMuteToggle /\ ~isMuted /\ accumulatedTranscript # NoTranscript )
        => judgeCalls' \subseteq judgeCalls ]_vars

\* ---------------------------------------------------------------- C35
\* C35: when generateRiddle completes in a session that is no longer active,
\* the completion leaves the session's riddle and status as they are and
\* narrates nothing.
C35_LateRiddleInert ==
  [][ ( RiddleReturn /\ ~gameState.isGameActive )
        => /\ gameState'.currentRiddle = gameState.currentRiddle
           /\ gameState'.statusText = gameState.statusText
           /\ synth' = synth
           /\ piperCalls' = piperCalls ]_vars

\* ---------------------------------------------------------------- C36
\* the end-game timer of a Correct outcome of the current game is pending
CorrectPending == \E i \in 1..Len(endGameTimers) : endGameTimers[i] = gameNo

\* C36: at most one end-game timer is pending at any time, and no request is
\* issued to the judge while the end-game timer of a Correct outcome of the
\* current game is pending.
C36_CorrectEndsTurns ==
  /\ [](Len(endGameTimers) <= 1)
  /\ [][ CorrectPending => Issued = {} ]_vars

\* ---------------------------------------------------------------- C37
\* C37: a request is issued to the judge only when the session's riddle has
\* been generated, and with the secret word and the riddle the session has
\* when the utterance is dequeued.
C37_JudgedAgainstSession ==
  [][ \A r \in judgeCalls' \ judgeCalls :
        /\ gameState.currentRiddle # NoRiddle
        /\ r.word = gameState.currentWord
        /\ r.riddle = gameState.currentRiddle ]_vars

\* ---------------------------------------------------------------- C38
\* C38: whenever the session is inactive, capture is not listening and no
\* auto-restart of recognition is pending.
C38_InactiveNotListening ==
  ~gameState.isGameActive
    => ( ~isListening /\ restartTimeout = "none" /\ ~startRetry )

\* ---------------------------------------------------------------- C39
\* C39: accumulated speech leaves the accumulator only by being delivered to
\* onResult, by the silence timer or by the flush of stopListening (in the
\* step that stops the game or mutes); it is never dropped otherwise.
C39_AccumulatedDelivered ==
  [][ ( /\ accumulatedTranscript # NoTranscript
        /\ accumulatedTranscript' # accumulatedTranscript )
        => \/ SilenceTimerFires
           \/ handleStopGame
           \/ ( handleMuteToggle /\ ~isMuted ) ]_vars

\* ---------------------------------------------------------------- C40
\* C40: once no hint request is in flight, the number of hints consumed in the
\* game equals the number of give_hint events sent in it.
C40_ConsumedWereDelivered ==
  hintCalls = {} => gameState.hintsUsed = hintsSent

=============================================================================
